---- MODULE Spec2Model ----
(***************************************************************************)
(* A model of the `scoped` crate (src/src/lib.rs): a scope closure         *)
(* registers deferred callbacks on a Guard; `scoped` runs the closure,     *)
(* drains the success or the failure registry according to the outcome,    *)
(* then drains the exit registry and returns the outcome.                  *)
(*                                                                         *)
(* The heap is modelled explicitly: every registration allocates one box   *)
(* (DeferCallback) and the registries hold box addresses, so that the      *)
(* reference returned by a registration and the entry later drained are    *)
(* two things that may or may not denote the same storage.                 *)
(***************************************************************************)
EXTENDS Integers, Sequences, FiniteSets, TLC

\* ---- bounds ----
MaxReg == 2        \* registrations the scope closure performs at most
MaxVal == 1        \* payload / outcome values range over 0..MaxVal
MaxCalls == 2      \* invocations of scoped, nested or one after the other, at most

Items == 0..MaxVal

\* behaviour of a registered callback: it returns, or it panics
CallFns == {"returns", "panics"}

\* the three registries of a Guard
Categories == {"on_scope_success", "on_scope_failure", "on_scope_exit"}

\* outcomes the scope closure may produce: Result<T, E> and Option<T>
\* (two distinct carried values are enough to tell a changed outcome from the original)
OutcomeVals == {0, MaxVal}

Outcomes ==
    [ty : {"Result"}, variant : {"Ok", "Err"}, val : OutcomeVals]
      \cup [ty : {"Option"}, variant : {"Some"}, val : OutcomeVals]
      \cup {[ty |-> "Option", variant |-> "None", val |-> 0]}

NoOutcome == [ty |-> "Unset", variant |-> "Unset", val |-> 0]

VARIABLES
    phase,      \* position inside scoped
    guard,      \* the Guard: one Vec of box addresses per registry
    heap,       \* allocated boxes: heap[a] = the DeferCallback at address a
    refs,       \* the closure's locals: per registration, the reference it got back
    written,    \* per registration, the value the closure last stored through its reference
                \* (the registered item if it never stored)
    lastStored, \* the registration whose reference the closure stored through last (0: none)
    v,          \* the vector execute() took out of the registry and iterates
    drained,    \* registries on which execute() has been called
    log,        \* callback invocations, in order
    ret,        \* the value the closure returned
    result,     \* the value scoped returned
    fault,      \* who panicked, if anybody
    borrow,     \* per registry, the borrow flag of its RefCell (0: not borrowed, -1: mutably)
    stack,      \* the suspended invocations of scoped whose closure called scoped again
    inv,        \* the number of the invocation of scoped that is running
    regs,       \* every registration made so far, by any invocation, in order
    outcomes    \* per invocation started, the outcome its closure returned

vars == <<phase, guard, heap, refs, written, lastStored, v, drained, log, ret, result, fault,
          borrow, stack, inv, regs, outcomes>>

\* ---- pure helpers ----

DeferCallback_new(item, call_fn) == [item |-> item, call_fn |-> call_fn]

Deferring_new == <<>>

Guard_default ==
    [on_scope_success |-> Deferring_new,
     on_scope_failure |-> Deferring_new,
     on_scope_exit    |-> Deferring_new]

\* A push that boxes a copy of the item and hands out a reference to the
\* original, which is not the storage the registry owns.
push_copy(inner, hp, item, closure) ==
    LET deferred == Len(hp) + 1 IN
    [heap  |-> hp \o << DeferCallback_new(item, closure), DeferCallback_new(item, closure) >>,
     ret   |-> deferred + 1,
     inner |-> Append(inner, deferred)]

push_front(inner, hp, item, closure) ==
    LET deferred == Len(hp) + 1 IN
    [heap  |-> Append(hp, DeferCallback_new(item, closure)),
     ret   |-> deferred,
     inner |-> <<deferred>> \o inner]

\* Deferring::push: box the entry, take the address of its item, push the box.
push(inner, hp, item, closure) ==
    LET deferred == Len(hp) + 1 IN
    [heap  |-> Append(hp, DeferCallback_new(item, closure)),
     ret   |-> deferred,
     inner |-> Append(inner, deferred)]

RefMut_leaked(flag) == flag - 1

\* self.inner.borrow_mut() in push: the flag goes to -1 for the statement and
\* back when the temporary RefMut is dropped at its end
RefMut_temporary(flag) == (flag - 1) + 1

is_error_swapped(r) ==
    IF r.ty = "Result" THEN r.variant = "Ok" ELSE r.variant = "None"

\* Failure::is_error for Result (is_err) and Option (is_none)
is_error(r) ==
    IF r.ty = "Result" THEN r.variant = "Err" ELSE r.variant = "None"

Branch_inverted(r) ==
    IF is_error(r) THEN "on_scope_success" ELSE "on_scope_failure"

\* the if/else of scoped: which registry is executed for outcome r
Branch(r) ==
    IF ~ is_error(r) THEN "on_scope_success" ELSE "on_scope_failure"

DrainPhase(cat) ==
    CASE cat = "on_scope_success" -> "SuccessDrain"
      [] cat = "on_scope_failure" -> "FailureDrain"
      [] cat = "on_scope_exit"    -> "ExitDrain"

next_front(vec) == 1

\* v.into_iter().rev(): the next element iterated is the last one left
next_back(vec) == Len(vec)

Remove(vec, i) == SubSeq(vec, 1, i - 1) \o SubSeq(vec, i + 1, Len(vec))

call_first(hp, vec, d) ==
    [entry |-> d, payload |-> hp[vec[1]].item]

\* Defer::call: the callback of box d is applied to the item of box d
call(hp, vec, d) ==
    [entry |-> d, payload |-> hp[d].item]

\* ---- initial state: scoped has been called, nothing has run ----

Init ==
    /\ phase = "Created"
    /\ guard = Guard_default
    /\ heap = <<>>
    /\ refs = <<>>
    /\ written = <<>>
    /\ lastStored = 0
    /\ v = <<>>
    /\ drained = {}
    /\ log = <<>>
    /\ ret = NoOutcome
    /\ result = NoOutcome
    /\ fault = "none"
    /\ borrow = [c \in Categories |-> 0]
    /\ stack = <<>>
    /\ inv = 1
    /\ regs = <<>>
    /\ outcomes = <<NoOutcome>>

\* ---- scoped, up to the call of the closure ----

\* let mut guard = Guard::default(); scope(&mut guard) starts
Begin ==
    /\ phase = "Created"
    /\ phase' = "Running"
    /\ guard' = Guard_default
    /\ UNCHANGED <<heap, refs, written, lastStored, v, drained, log, ret, result, fault>>
    /\ UNCHANGED <<borrow, stack, inv, regs, outcomes>>

\* ---- the scope closure ----

\* unwinding: every local is dropped, no callback is called
Unwind(who) ==
    /\ phase' = "Unwound"
    /\ fault' = who
    /\ guard' = Guard_default
    /\ v' = <<>>

Register_while_draining(cat, item, dc) ==
    /\ phase \in {"Running", "SuccessDrain", "FailureDrain", "ExitDrain"}
    /\ Len(regs) < MaxReg
    /\ LET r == push(guard[cat], heap, item, dc) IN
         /\ guard' = [guard EXCEPT ![cat] = r.inner]
         /\ heap' = r.heap
         /\ refs' = Append(refs, [cat |-> cat, ref |-> r.ret, box |-> r.inner[Len(r.inner)]])
         /\ written' = Append(written, item)
         /\ regs' = Append(regs, [inv |-> inv, cat |-> cat, box |-> r.inner[Len(r.inner)]])
    /\ UNCHANGED <<phase, lastStored, v, drained, log, ret, result, fault>>
    /\ UNCHANGED <<borrow, stack, inv, outcomes>>

\* a registration made by the scope closure through one of the Guard's methods
Register(cat, item, dc) ==
    /\ phase = "Running"
    /\ Len(regs) < MaxReg
    /\ IF borrow[cat] # 0
         THEN \* BorrowMutError: borrow_mut() panics inside the closure
              /\ Unwind("borrow")
              /\ UNCHANGED <<heap, refs, written, lastStored, drained, log, ret, result>>
              /\ UNCHANGED <<borrow, stack, inv, regs, outcomes>>
         ELSE /\ LET r == push(guard[cat], heap, item, dc) IN
                   /\ guard' = [guard EXCEPT ![cat] = r.inner]
                   /\ heap' = r.heap
                   /\ refs' = Append(refs, [cat |-> cat, ref |-> r.ret,
                                             box |-> r.inner[Len(r.inner)]])
                   /\ written' = Append(written, item)
                   /\ regs' = Append(regs, [inv |-> inv, cat |-> cat,
                                             box |-> r.inner[Len(r.inner)]])
              /\ borrow' = [borrow EXCEPT ![cat] = RefMut_temporary(@)]
              /\ UNCHANGED <<phase, lastStored, v, drained, log, ret, result, fault>>
              /\ UNCHANGED <<stack, inv, outcomes>>

on_scope_success ==
    \E item \in Items, dc \in CallFns : Register("on_scope_success", item, dc)

on_scope_exit ==
    \E item \in Items, dc \in CallFns : Register("on_scope_exit", item, dc)

on_scope_failure ==
    \E item \in Items, dc \in CallFns : Register("on_scope_failure", item, dc)

\* the closure stores through a reference a registration returned
WriteThroughRef ==
    /\ phase = "Running"
    /\ \E i \in 1..Len(refs), val \in Items :
         /\ heap' = [heap EXCEPT ![refs[i].ref].item = val]
         /\ written' = [written EXCEPT ![i] = val]
         /\ lastStored' = i
    /\ UNCHANGED <<phase, guard, refs, v, drained, log, ret, result, fault>>
    /\ UNCHANGED <<borrow, stack, inv, regs, outcomes>>

execute_clears_all(cat) ==
    /\ v' = guard[cat]
    /\ guard' = Guard_default
    /\ drained' = drained \cup {cat}

execute_keeps(cat) ==
    /\ v' = guard[cat]
    /\ guard' = guard
    /\ drained' = drained \cup {cat}

\* Deferring::execute, up to the loop: take the vector out of the registry
execute(cat) ==
    /\ v' = guard[cat]
    /\ guard' = [guard EXCEPT ![cat] = <<>>]
    /\ drained' = drained \cup {cat}

ScopeReturn_skips_branch ==
    /\ phase = "Running"
    /\ \E r \in Outcomes :
         /\ ret' = r
         /\ outcomes' = [outcomes EXCEPT ![inv] = r]
    /\ phase' = "ExitDrain"
    /\ execute("on_scope_exit")
    /\ UNCHANGED <<heap, refs, written, lastStored, log, result, fault>>
    /\ UNCHANGED <<borrow, stack, inv, regs>>

\* the closure returns r; scoped classifies it and starts the selected drain
ScopeReturn ==
    /\ phase = "Running"
    /\ \E r \in Outcomes :
         /\ ret' = r
         /\ outcomes' = [outcomes EXCEPT ![inv] = r]
         /\ phase' = DrainPhase(Branch(r))
         /\ execute(Branch(r))
    /\ UNCHANGED <<heap, refs, written, lastStored, log, result, fault>>
    /\ UNCHANGED <<borrow, stack, inv, regs>>

ScopeFault_runs_exit ==
    /\ phase = "Running"
    /\ phase' = "ExitDrain"
    /\ fault' = "closure"
    /\ v' = guard.on_scope_exit
    /\ guard' = Guard_default
    /\ drained' = drained \cup {"on_scope_exit"}
    /\ UNCHANGED <<heap, refs, written, lastStored, log, ret, result>>
    /\ UNCHANGED <<borrow, stack, inv, regs, outcomes>>

\* the closure panics before returning
ScopeFault ==
    /\ phase = "Running"
    /\ Unwind("closure")
    /\ UNCHANGED <<heap, refs, written, lastStored, drained, log, ret, result>>
    /\ UNCHANGED <<borrow, stack, inv, regs, outcomes>>

\* ---- the drains ----

Draining == phase \in {"SuccessDrain", "FailureDrain", "ExitDrain"}

\* one iteration of the loop of execute, the callback returns
Call ==
    /\ Draining
    /\ v # <<>>
    /\ LET i == next_back(v)
           d == v[i] IN
         /\ heap[d].call_fn = "returns"
         /\ log' = Append(log, call(heap, v, d) @@ [phase |-> phase, returned |-> TRUE, inv |-> inv])
         /\ v' = Remove(v, i)
    /\ UNCHANGED <<phase, guard, heap, refs, written, lastStored, drained, ret, result, fault>>
    /\ UNCHANGED <<borrow, stack, inv, regs, outcomes>>

CallFault_swallowed ==
    /\ Draining
    /\ v # <<>>
    /\ LET i == next_back(v)
           d == v[i] IN
         /\ heap[d].call_fn = "panics"
         /\ log' = Append(log, call(heap, v, d) @@ [phase |-> phase, returned |-> FALSE, inv |-> inv])
         /\ v' = Remove(v, i)
    /\ fault' = "callback"
    /\ UNCHANGED <<phase, guard, heap, refs, written, lastStored, drained, ret, result>>
    /\ UNCHANGED <<borrow, stack, inv, regs, outcomes>>

\* one iteration of the loop of execute, the callback panics
CallFault ==
    /\ Draining
    /\ v # <<>>
    /\ LET i == next_back(v)
           d == v[i] IN
         /\ heap[d].call_fn = "panics"
         /\ log' = Append(log, call(heap, v, d) @@ [phase |-> phase, returned |-> FALSE, inv |-> inv])
    /\ Unwind("callback")
    /\ UNCHANGED <<heap, refs, written, lastStored, drained, ret, result>>
    /\ UNCHANGED <<borrow, stack, inv, regs, outcomes>>

ExitDrain_only_on_success ==
    /\ phase \in {"SuccessDrain", "FailureDrain"}
    /\ v = <<>>
    /\ phase' = "ExitDrain"
    /\ IF phase = "SuccessDrain"
         THEN execute("on_scope_exit")
         ELSE UNCHANGED <<v, guard, drained>>
    /\ UNCHANGED <<heap, refs, written, lastStored, log, ret, result, fault>>
    /\ UNCHANGED <<borrow, stack, inv, regs, outcomes>>

\* the selected drain is over: guard.on_scope_exit.execute()
ExitDrain ==
    /\ phase \in {"SuccessDrain", "FailureDrain"}
    /\ v = <<>>
    /\ phase' = "ExitDrain"
    /\ execute("on_scope_exit")
    /\ UNCHANGED <<heap, refs, written, lastStored, log, ret, result, fault>>
    /\ UNCHANGED <<borrow, stack, inv, regs, outcomes>>

Return_early ==
    /\ Draining
    /\ v = <<>>
    /\ phase' = "Completed"
    /\ result' = ret
    /\ guard' = Guard_default
    /\ UNCHANGED <<heap, refs, written, lastStored, v, drained, log, ret, fault>>
    /\ UNCHANGED <<borrow, stack, inv, regs, outcomes>>

Return_default ==
    /\ phase = "ExitDrain"
    /\ v = <<>>
    /\ phase' = "Completed"
    /\ result' = [ret EXCEPT !.val = 0]
    /\ guard' = Guard_default
    /\ UNCHANGED <<heap, refs, written, lastStored, v, drained, log, ret, fault>>
    /\ UNCHANGED <<borrow, stack, inv, regs, outcomes>>

\* the exit drain is over: scoped returns ret, the guard is dropped
Return ==
    /\ phase = "ExitDrain"
    /\ v = <<>>
    /\ phase' = "Completed"
    /\ result' = ret
    /\ guard' = Guard_default
    /\ UNCHANGED <<heap, refs, written, lastStored, v, drained, log, ret, fault>>
    /\ UNCHANGED <<borrow, stack, inv, regs, outcomes>>

Next ==
    \/ Begin
    \/ on_scope_success
    \/ on_scope_exit
    \/ on_scope_failure
    \/ WriteThroughRef
    \/ ScopeReturn
    \/ ScopeFault
    \/ Call
    \/ CallFault
    \/ ExitDrain
    \/ Return

Spec == Init /\ [][Next]_vars

\* ---- several invocations of scoped ----

\* the locals of the running invocation, as saved while a nested one runs
Frame ==
    [phase |-> phase, guard |-> guard, refs |-> refs, written |-> written,
     lastStored |-> lastStored, drained |-> drained, ret |-> ret, inv |-> inv,
     borrow |-> borrow]

SharedGuardInvocation ==
    /\ phase' = "Running"
    /\ guard' = guard
    /\ borrow' = borrow
    /\ refs' = <<>>
    /\ written' = <<>>
    /\ lastStored' = 0
    /\ drained' = {}
    /\ ret' = NoOutcome
    /\ inv' = Len(outcomes) + 1
    /\ outcomes' = Append(outcomes, NoOutcome)

\* the locals of an invocation whose closure starts: a new, empty Guard
FreshInvocation ==
    /\ phase' = "Running"
    /\ guard' = Guard_default
    /\ borrow' = [c \in Categories |-> 0]
    /\ refs' = <<>>
    /\ written' = <<>>
    /\ lastStored' = 0
    /\ drained' = {}
    /\ ret' = NoOutcome
    /\ inv' = Len(outcomes) + 1
    /\ outcomes' = Append(outcomes, NoOutcome)

\* the scope closure calls scoped: the outer invocation waits for it
NestedCall ==
    /\ phase = "Running"
    /\ Len(outcomes) < MaxCalls
    /\ stack' = <<Frame>> \o stack
    /\ FreshInvocation
    /\ UNCHANGED <<heap, v, log, result, fault, regs>>

\* a nested scoped returns to the closure that called it
NestedReturn ==
    /\ phase = "ExitDrain"
    /\ v = <<>>
    /\ stack # <<>>
    /\ LET f == Head(stack) IN
         /\ phase' = f.phase
         /\ guard' = f.guard
         /\ refs' = f.refs
         /\ written' = f.written
         /\ lastStored' = f.lastStored
         /\ drained' = f.drained
         /\ ret' = f.ret
         /\ inv' = f.inv
         /\ borrow' = f.borrow
    /\ stack' = Tail(stack)
    /\ UNCHANGED <<heap, v, log, result, fault, regs, outcomes>>

\* the panic of a nested scoped unwinds the closure that called it
PropagatePanic ==
    /\ phase = "Unwound"
    /\ stack # <<>>
    /\ LET f == Head(stack) IN
         /\ refs' = f.refs
         /\ written' = f.written
         /\ lastStored' = f.lastStored
         /\ drained' = f.drained
         /\ ret' = f.ret
         /\ inv' = f.inv
         /\ borrow' = f.borrow
    /\ Unwind("closure")
    /\ stack' = Tail(stack)
    /\ UNCHANGED <<heap, log, result, regs, outcomes>>

\* the outermost scoped returns
TopReturn ==
    /\ stack = <<>>
    /\ Return

\* scoped is called again after it has returned
NextCall ==
    /\ phase = "Completed"
    /\ stack = <<>>
    /\ Len(outcomes) < MaxCalls
    /\ FreshInvocation
    /\ result' = NoOutcome
    /\ UNCHANGED <<heap, v, log, fault, regs, stack>>

\* Which entries a drain takes depends on no payload and on the outcome only
\* through is_error: with several invocations the payloads are all 0 and the
\* outcomes are Ok(0) and Err(0).
CallsInputs ==
    /\ \A a \in 1..Len(heap') : heap'[a].item = 0
    /\ ret' \in {NoOutcome} \cup [ty : {"Result"}, variant : {"Ok", "Err"}, val : {0}]

CallsNext ==
    \/ Begin /\ CallsInputs
    \/ on_scope_success /\ CallsInputs
    \/ on_scope_exit /\ CallsInputs
    \/ on_scope_failure /\ CallsInputs
    \/ WriteThroughRef /\ CallsInputs
    \/ ScopeReturn /\ CallsInputs
    \/ ScopeFault /\ CallsInputs
    \/ Call /\ CallsInputs
    \/ CallFault /\ CallsInputs
    \/ ExitDrain /\ CallsInputs
    \/ TopReturn /\ CallsInputs
    \/ NestedCall /\ CallsInputs
    \/ NestedReturn /\ CallsInputs
    \/ PropagatePanic /\ CallsInputs
    \/ NextCall /\ CallsInputs

CallsSpec == Init /\ [][CallsNext]_vars

\* the closure and the callbacks are pieces of sequential code that either
\* return or panic; scoped itself never waits
FairSpec == Spec /\ WF_vars(Next) /\ WF_vars(ScopeReturn \/ ScopeFault)

\* ---- vocabulary of the properties ----

Reverse(s) == [i \in 1..Len(s) |-> s[Len(s) + 1 - i]]

\* the registration that created box d
RegOfBox(d) == CHOOSE i \in 1..Len(refs) : refs[i].box = d

CatOf(d) == refs[RegOfBox(d)].cat

\* boxes registered into category c, in registration order
Registered(c) ==
    LET rs == SelectSeq(refs, LAMBDA r : r.cat = c)
    IN  [i \in 1..Len(rs) |-> rs[i].box]

\* boxes of category c whose callback has been invoked, in invocation order
Invoked(c) ==
    LET es == SelectSeq(log, LAMBDA e : CatOf(e.entry) = c)
    IN  [i \in 1..Len(es) |-> es[i].entry]

InvokedAt(d) == {j \in 1..Len(log) : log[j].entry = d}

\* execute() has been called on registry c and its loop has ended normally
DrainDone(c) ==
    /\ c \in drained
    /\ fault = "none"
    /\ phase = DrainPhase(c) => v = <<>>

Left == phase \in {"Completed", "Unwound"}

\* ---- C1 ----
\* C1 (exit-always law): when scoped completes, every on_scope_exit
\* registration has been invoked; and whenever an on_scope_exit callback is
\* invoked, every callback of the drained success/failure registry has been
\* invoked before it, whatever the registration order was.
C1_ExitAlways ==
    /\ phase = "Completed" =>
         \A i \in 1..Len(refs) :
            refs[i].cat = "on_scope_exit" =>
               \E j \in 1..Len(log) : log[j].entry = refs[i].box /\ log[j].returned
    /\ \A j \in 1..Len(log) :
         CatOf(log[j].entry) = "on_scope_exit" =>
            /\ drained \ {"on_scope_exit"} # {}
            /\ \A i \in 1..Len(refs) :
                 refs[i].cat \in drained \ {"on_scope_exit"} =>
                    \E k \in 1..(j - 1) : log[k].entry = refs[i].box /\ log[k].returned

C1_Witness ==
    /\ phase = "Completed"
    /\ Len(refs) = 2
    /\ refs[1].cat = "on_scope_exit"
    /\ refs[2].cat = "on_scope_failure"
    /\ Len(log) = 2
    /\ log[2].entry = refs[1].box

\* ---- C2 ----
\* C2 (exclusive-branch law): once the closure has returned, exactly one of
\* the success and failure registries has been drained, the failure registry
\* iff is_error() of the outcome is true, and no callback registered in the
\* other registry is in the invocation log, then or in any later state.
C2_ExclusiveBranch ==
    ret # NoOutcome =>
       LET sel   == IF is_error(ret) THEN "on_scope_failure" ELSE "on_scope_success"
           other == IF is_error(ret) THEN "on_scope_success" ELSE "on_scope_failure"
       IN  /\ drained \cap {"on_scope_success", "on_scope_failure"} = {sel}
           /\ \A j \in 1..Len(log) : CatOf(log[j].entry) # other
           /\ Left => guard[other] = <<>>

C2_Witness ==
    /\ phase = "Completed"
    /\ is_error(ret)
    /\ Len(refs) = 2
    /\ refs[1].cat = "on_scope_success"
    /\ refs[2].cat = "on_scope_failure"
    /\ Len(log) = 1
    /\ log[1].entry = refs[2].box

\* ---- C3 ----
\* C3 (reverse-order law): for each category, the callbacks invoked so far
\* are a prefix of the reverse of the registration order of that category,
\* and the whole reverse once the drain of that category has ended.
C3_ReverseOrder ==
    \A c \in Categories :
       /\ Len(Invoked(c)) <= Len(Registered(c))
       /\ Invoked(c) = SubSeq(Reverse(Registered(c)), 1, Len(Invoked(c)))
       /\ DrainDone(c) => Invoked(c) = Reverse(Registered(c))

C3_Witness ==
    /\ phase = "Completed"
    /\ \E c \in Categories :
         /\ Len(Registered(c)) = MaxReg
         /\ Len(log) = MaxReg
         /\ log[1].entry = refs[MaxReg].box
         /\ log[MaxReg].entry = refs[1].box

\* ---- C4 ----
\* C4 (pass-through law): scoped returns exactly when it completes, the
\* value it returns is the value the closure returned, and no step changes
\* the closure's outcome once it has been produced.
C4_PassThrough ==
    /\ [](phase = "Completed" => result = ret /\ ret \in Outcomes)
    /\ [](phase # "Completed" => result = NoOutcome)
    /\ [][ret # NoOutcome => ret' = ret]_vars

C4_Witness ==
    /\ phase = "Completed"
    /\ result.ty = "Result"
    /\ result.variant = "Err"
    /\ result.val = MaxVal
    /\ Len(log) = MaxReg

\* ---- C5 ----
\* C5 (exactly-once law): no box is invoked twice; every invocation receives
\* the item stored in the invoked box; and when a drain has ended without a
\* fault every entry of that registry has been invoked exactly once.
C5_ExactlyOnce ==
    /\ \A j, k \in 1..Len(log) : log[j].entry = log[k].entry => j = k
    /\ \A j \in 1..Len(log) : log[j].payload = heap[log[j].entry].item
    /\ \A i \in 1..Len(refs) :
         DrainDone(refs[i].cat) => Cardinality(InvokedAt(refs[i].box)) = 1

C5_Witness ==
    /\ phase = "Completed"
    /\ Len(refs) = 2
    /\ refs[1].cat = refs[2].cat
    /\ heap[refs[1].box].item # heap[refs[2].box].item
    /\ Len(log) = 2
    /\ log[1].payload # log[2].payload

\* ---- C6 ----
\* C6 (stable-reference law): the payload a callback receives is the value
\* the closure last stored through the reference its registration returned
\* (the registered value if it never stored), whatever was registered in
\* between.
C6_StableReference ==
    \A j \in 1..Len(log) :
       log[j].payload = written[RegOfBox(log[j].entry)]

\* the closure stored through the first of MaxReg references and the
\* callback of that entry received the stored value
C6_Witness ==
    /\ Len(refs) = MaxReg
    /\ lastStored = 1
    /\ written[1] = MaxVal
    /\ \E j \in 1..Len(log) :
         /\ log[j].entry = refs[1].box
         /\ log[j].payload = MaxVal

C10_Classification ==
    ret # NoOutcome =>
       /\ ret.ty = "Result" =>
            ("on_scope_failure" \in drained <=> ret.variant = "Err")
       /\ ret.ty = "Option" =>
            ("on_scope_failure" \in drained <=> ret.variant = "None")
       /\ ret.variant \in {"Ok", "Some"} => "on_scope_success" \in drained
       /\ Cardinality(drained \ {"on_scope_exit"}) = 1

C10_Witness ==
    /\ phase = "Completed"
    /\ ret.ty = "Result"
    /\ ret.variant = "Ok"
    /\ ret.val = MaxVal
    /\ Len(refs) = 2
    /\ refs[1].cat = "on_scope_failure"
    /\ refs[2].cat = "on_scope_success"
    /\ Len(log) = 1

\* ---- C11 ----
\* C11 (idempotent-empty law): a registry on which execute() has been called
\* is empty from then on, so draining it again would iterate nothing; the
\* drain of a registry that holds no entry invokes no callback, raises no
\* fault and lets scoped go on; a scope without registrations returns its
\* outcome with no callback invoked.
C11_IdempotentEmpty ==
    /\ \A c \in drained : guard[c] = <<>>
    /\ \A c \in drained :
         Registered(c) = <<>> => \A j \in 1..Len(log) : log[j].phase # DrainPhase(c)
    /\ (Draining /\ v = <<>>) => (fault = "none" /\ ENABLED (ExitDrain \/ Return))
    /\ (phase = "Completed" /\ refs = <<>>) => (log = <<>> /\ result = ret)

C11_Witness ==
    /\ phase = "Completed"
    /\ refs = <<>>
    /\ drained = {"on_scope_success", "on_scope_exit"}
    /\ log = <<>>
    /\ result = [ty |-> "Result", variant |-> "Ok", val |-> MaxVal]

\* ---- C12 ----
\* C12 (registration effect and frame): a registration appends exactly one
\* entry, a freshly allocated box, at the end of its own registry; the two
\* other registries, the entries already registered (their position, item
\* and callback) and the references returned earlier are unchanged, and
\* every returned reference still points into the box its registry holds.
C12_RegistrationFrame ==
    [][Len(refs') = Len(refs) + 1 =>
         LET new == refs'[Len(refs')] IN
           /\ SubSeq(refs', 1, Len(refs)) = refs
           /\ SubSeq(written', 1, Len(refs)) = written
           /\ guard'[new.cat] = Append(guard[new.cat], new.box)
           /\ Len(guard'[new.cat]) = Len(guard[new.cat]) + 1
           /\ \A c \in Categories \ {new.cat} : guard'[c] = guard[c]
           /\ Len(heap') = Len(heap) + 1
           /\ new.box = Len(heap')
           /\ \A a \in 1..Len(heap) : heap'[a] = heap[a]
           /\ \A i \in 1..Len(refs') : refs'[i].ref = refs'[i].box
    ]_vars

\* two registrations into one registry, the first entry's item stored
\* through its reference in between or afterwards
C12_Witness ==
    /\ phase = "Running"
    /\ Len(refs) = 2
    /\ refs[1].cat = "on_scope_exit"
    /\ guard.on_scope_exit = <<refs[1].box, refs[2].box>>
    /\ lastStored = 1
    /\ heap[refs[1].ref].item = MaxVal

\* ---- C13 ----
\* C13 (registration-before-drain ordering): while the closure has not
\* returned no callback has been invoked and no registry has been drained;
\* once a drain has begun no registration happens any more (no entry, no
\* box, no reference is added), the registries only lose entries, and the
\* vector being iterated only shrinks, by the entry just invoked.
C13_RegistrationBeforeDrain ==
    /\ [](phase \in {"Created", "Running"} => log = <<>> /\ drained = {} /\ v = <<>>)
    /\ [][(drained # {} \/ log # <<>>) =>
            /\ refs' = refs
            /\ heap' = heap
            /\ written' = written
            /\ \A c \in Categories : guard'[c] \in {guard[c], <<>>}]_vars
    /\ [][(phase \in {"SuccessDrain", "FailureDrain", "ExitDrain"} /\ phase' = phase) =>
            /\ Len(v') = Len(v) - 1
            /\ Len(log') = Len(log) + 1
            /\ v' = SubSeq(v, 1, Len(v'))]_vars

C13_Witness ==
    /\ phase = "ExitDrain"
    /\ Len(refs) = 2
    /\ refs[1].cat = "on_scope_exit"
    /\ refs[2].cat = "on_scope_exit"
    /\ Len(log) = 1
    /\ Len(v) = 1

\* ---- C14 ----
PhaseEdges ==
    {<<"Created", "Running">>,
     <<"Running", "SuccessDrain">>, <<"Running", "FailureDrain">>,
     <<"SuccessDrain", "ExitDrain">>, <<"FailureDrain", "ExitDrain">>,
     <<"ExitDrain", "Completed">>}

\* C14 (phase state machine): every change of phase follows one edge of
\* Created -> Running -> (SuccessDrain | FailureDrain) -> ExitDrain ->
\* Completed, so the phase never moves backward and never skips a drain; the
\* branch taken is the one the outcome selects and is decided once; nothing
\* happens after Completed. (A panic abandons the invocation out of Running
\* or out of a drain; it enters none of the five phases.)
C14_PhaseMachine ==
    [][/\ phase' # phase =>
            \/ <<phase, phase'>> \in PhaseEdges
            \/ /\ phase' = "Unwound"
               /\ fault' # "none"
               /\ phase \in {"Running", "SuccessDrain", "FailureDrain", "ExitDrain"}
       /\ phase \in {"Completed", "Unwound"} => vars' = vars
       /\ (phase = "Running" /\ phase' \in {"SuccessDrain", "FailureDrain"}) =>
            /\ ret = NoOutcome
            /\ drained = {}
            /\ phase' = (IF is_error(ret') THEN "FailureDrain" ELSE "SuccessDrain")
       /\ ret # NoOutcome => ret' = ret
       /\ drained \ {"on_scope_exit"} # {} =>
            drained' \ {"on_scope_exit"} = drained \ {"on_scope_exit"}
    ]_vars

C14_Witness ==
    /\ phase = "Completed"
    /\ Len(log) = 2
    /\ log[1].phase = "FailureDrain"
    /\ log[2].phase = "ExitDrain"
    /\ drained = {"on_scope_failure", "on_scope_exit"}

\* ---- C17 ----
\* C17 (drain frame): a call of execute() takes the entries of its own
\* registry and leaves the two other registries as they were; an invocation
\* changes no registry and invokes an entry registered in the registry being
\* drained; so when the exit drain starts it takes every exit registration
\* in registration order, and when scoped completes the non-selected
\* registry still holds all of its entries, none of them invoked.
C17_DrainFrame ==
    [][/\ drained' # drained =>
            \E c \in Categories \ drained :
               /\ drained' = drained \cup {c}
               /\ v' = guard[c]
               /\ guard'[c] = <<>>
               /\ \A o \in Categories \ {c} : guard'[o] = guard[o]
       /\ (Len(log') = Len(log) + 1 /\ log'[Len(log')].returned) =>
            /\ guard' = guard
            /\ DrainPhase(CatOf(log'[Len(log')].entry)) = phase
       /\ (phase' = "ExitDrain" /\ phase # "ExitDrain") =>
            v' = Registered("on_scope_exit")
       /\ (phase' = "Completed" /\ phase # "Completed") =>
            LET other == IF is_error(ret) THEN "on_scope_success" ELSE "on_scope_failure"
            IN  /\ guard[other] = Registered(other)
                /\ \A j \in 1..Len(log) : CatOf(log[j].entry) # other
    ]_vars

\* the (empty) success registry has been drained: the two others are intact
C17_Witness ==
    /\ phase = "SuccessDrain"
    /\ v = <<>>
    /\ Len(refs) = 2
    /\ refs[1].cat = "on_scope_exit"
    /\ refs[2].cat = "on_scope_failure"
    /\ guard.on_scope_exit = <<refs[1].box>>
    /\ guard.on_scope_failure = <<refs[2].box>>

\* ---- C15 ----
\* C15 (registration cannot fail): no registration ever panics on the borrow
\* check; between two steps of the closure no borrow of any registry's
\* RefCell is outstanding, however many registrations were made and however
\* many returned references are still in use, so borrow_mut() in push always
\* finds the cell unborrowed.
C15_RegistrationCannotFail ==
    /\ fault # "borrow"
    /\ \A c \in Categories : borrow[c] = 0
    /\ phase = "Running" => Len(refs) = Len(guard.on_scope_success)
                                         + Len(guard.on_scope_failure)
                                         + Len(guard.on_scope_exit)

\* MaxReg registrations into one registry, with a store through the first
\* returned reference
C15_Witness ==
    /\ phase = "Running"
    /\ Len(refs) = MaxReg
    /\ Len(guard.on_scope_success) = MaxReg
    /\ lastStored = 1

\* ---- C16 ----
\* the invocation that registered box d, and the registry it registered it in
OwnerOf(d) == regs[CHOOSE k \in 1..Len(regs) : regs[k].box = d].inv

RegistryOf(d) == regs[CHOOSE k \in 1..Len(regs) : regs[k].box = d].cat

\* the boxes invocation i registered into registry c, in registration order
RegisteredBy(i, c) ==
    LET rs == SelectSeq(regs, LAMBDA r : r.inv = i /\ r.cat = c)
    IN  [k \in 1..Len(rs) |-> rs[k].box]

\* the invocations that have not ended: the running one and the suspended ones
Active == {inv} \cup {stack[k].inv : k \in 1..Len(stack)}

\* C16 (per-invocation isolation): the registries of an invocation hold
\* entries registered through its own Guard only, starting empty; while its
\* closure runs, and while it waits for a nested invocation, they hold all
\* of its registrations in order; a callback is invoked by a drain of the
\* invocation that registered it, selected by that invocation's outcome;
\* and an invocation that has returned, nested ones included, has invoked
\* every entry of its selected and exit registries before the caller goes on.
C16_Isolation ==
    /\ \A c \in Categories : \A k \in 1..Len(guard[c]) : OwnerOf(guard[c][k]) = inv
    /\ \A k \in 1..Len(v) : OwnerOf(v[k]) = inv
    /\ phase = "Running" => \A c \in Categories : guard[c] = RegisteredBy(inv, c)
    /\ \A k \in 1..Len(stack) :
         /\ stack[k].phase = "Running"
         /\ \A c \in Categories : stack[k].guard[c] = RegisteredBy(stack[k].inv, c)
    /\ \A j \in 1..Len(log) :
         LET d == log[j].entry
             o == outcomes[log[j].inv]
         IN  /\ OwnerOf(d) = log[j].inv
             /\ o # NoOutcome
             /\ log[j].phase = DrainPhase(RegistryOf(d))
             /\ RegistryOf(d) \in
                  {"on_scope_exit",
                   IF is_error(o) THEN "on_scope_failure" ELSE "on_scope_success"}
    /\ phase # "Unwound" =>
         \A k \in 1..Len(regs) :
            regs[k].inv \notin Active =>
               LET o == outcomes[regs[k].inv]
                   n == Cardinality({j \in 1..Len(log) : log[j].entry = regs[k].box})
               IN  IF regs[k].cat \in
                        {"on_scope_exit",
                         IF is_error(o) THEN "on_scope_failure" ELSE "on_scope_success"}
                     THEN n = 1
                     ELSE n = 0

\* the outer closure registered an entry, called scoped, and goes on after the
\* nested invocation has drained its own entry: the outer entry is untouched
C16_Witness ==
    /\ phase = "Running"
    /\ inv = 1
    /\ stack = <<>>
    /\ Len(outcomes) = 2
    /\ Len(regs) = 2
    /\ regs[1].inv = 1
    /\ regs[2].inv = 2
    /\ guard[regs[1].cat] = <<regs[1].box>>
    /\ Len(log) = 1
    /\ log[1].entry = regs[2].box

====
